---- MODULE Spec2Model ----
(***************************************************************************)
(* Model of HecClient (packages/hec-client/src/client.ts): the queue, the  *)
(* flush scheduler, the set of in-flight flushes, the retry loop of        *)
(* sendToHec, shutdown, flushStats and clone; and of AbortHandle, the      *)
(* group of abort tokens of the async-tasks package.                       *)
(*                                                                         *)
(* One step of the model is one turn of the JavaScript event loop: a       *)
(* public method call, a timer callback or an I/O completion, together     *)
(* with every promise reaction (microtask) it sets off.                    *)
(***************************************************************************)
EXTENDS Integers, Sequences, FiniteSets, TLC

\* ---------------------------------------------------------------- bounds
MaxAccepted == 2        \* records accepted by the push operations
MaxFailures == 2        \* POSTs that fail (network error, timeout, non-2xx)
MaxClients == 3         \* client instances made by clone
MaxTasks == 3           \* calls of AbortHandle.withAbort and AbortHandle.race

\* byte lengths of the serialized messages that are pushed
MsgLens == {1, 3}

\* the configurations the client is constructed with
Configs ==
    { [gzip |-> FALSE, maxRetries |-> 1, maxQueueSize |-> 2, maxQueueEntries |-> -1,
       multipleMetricFormatEnabled |-> FALSE],
      [gzip |-> TRUE, maxRetries |-> 0, maxQueueSize |-> 2, maxQueueEntries |-> 1,
       multipleMetricFormatEnabled |-> TRUE] }

VARIABLES
    config,          \* this.config (CookedHecConfig), fixed at construction
    active,          \* this.active
    queue,           \* this.queue: sequence of [id, len]
    queueSizeBytes,  \* this.queueSizeBytes
    flushTimer,      \* this.flushTimer != null
    activeFlushing,  \* this.activeFlushing: set of flush handles (flush ids)
    counters,        \* this.counters
    flushes,         \* every sendToHec invocation so far, by handle
    flushCalls,      \* the pending promise of flush() that is observed, one call
                     \* at a time: the handles it awaits
    racing,          \* the shutdown calls in their race: the handles each awaits
    accepted,        \* number of records accepted so far (record ids)
    failures,        \* number of failed POSTs so far
    lastCall,        \* the push call the last step made after shutdown, if any
    settled,         \* what the shutdown calls did in the last step: "racing"
                     \* (one began its race), "resolved", "rejected"
    statsTaken,      \* flushStats has been called since construction
    lastStats,       \* what flushStats returned in the last step: <<stats>>, or
                     \* <<>> when the step was no call of flushStats
    clients,         \* the HecClient instances, by identity: the url and token of
                     \* config, and the identities of httpAgent, queue and
                     \* activeFlushing
    lastClone,       \* the clone call of the last step: <<[self, overrides,
                     \* result]>>, or <<>>
    groupAborted,    \* AbortHandle.aborted
    handles,         \* AbortHandle.handles: the registered tokens, by call number
    tasks            \* the calls of withAbort / race of one AbortHandle

\* the state of the client whose queue and flushes are followed
hecVars == <<config, active, queue, queueSizeBytes, flushTimer, activeFlushing,
             counters, flushes, flushCalls, racing, accepted, failures, lastCall,
             settled, statsTaken, lastStats>>
cloneVars == <<clients, lastClone>>
abortVars == <<groupAborted, handles, tasks>>

vars == <<hecVars, cloneVars, abortVars>>

initialCounters ==
    [errorCount |-> 0, retryCount |-> 0, queuedMessages |-> 0, sentMessages |-> 0,
     queuedBytes |-> 0, sentBytes |-> 0, transferredBytes |-> 0]

\* the mutable state as one record, so that a handler is a function on it
St ==
    [active |-> active, queue |-> queue, queueSizeBytes |-> queueSizeBytes,
     flushTimer |-> flushTimer, activeFlushing |-> activeFlushing,
     counters |-> counters, flushes |-> flushes, flushCalls |-> flushCalls,
     racing |-> racing, accepted |-> accepted, failures |-> failures,
     statsTaken |-> statsTaken,
     settled |-> {}, threw |-> FALSE, stats |-> <<>>]

Commit(s) ==
    /\ active' = s.active
    /\ queue' = s.queue
    /\ queueSizeBytes' = s.queueSizeBytes
    /\ flushTimer' = s.flushTimer
    /\ activeFlushing' = s.activeFlushing
    /\ counters' = s.counters
    /\ flushes' = s.flushes
    /\ flushCalls' = s.flushCalls
    /\ racing' = s.racing
    /\ accepted' = s.accepted
    /\ failures' = s.failures
    /\ settled' = s.settled
    /\ statsTaken' = s.statsTaken
    /\ lastStats' = s.stats
    /\ UNCHANGED <<cloneVars, abortVars>>
    /\ config' = config

\* lastCall records a push operation that the last step made on a client that
\* had been shut down: whether it had a message to enqueue and whether it threw
NoCall == [op |-> "none", msgs |-> FALSE, threw |-> FALSE]
Called(op, n, threw) ==
    lastCall' = IF ~active THEN [op |-> op, msgs |-> n > 0, threw |-> threw]
                ELSE NoCall
NotAPush == lastCall' = NoCall

RECURSIVE SumLen(_)
SumLen(q) == IF q = <<>> THEN 0 ELSE Head(q).len + SumLen(Tail(q))

\* compressBody: length of the gzip encoding of a body of n bytes
compressBody(n) == (n \div 2) + 1

\* ------------------------------------------------------------ sendToHec
settle_removesOnSuccessOnly(s, f, how) ==
    [s EXCEPT !.flushes[f].pc = how, !.flushes[f].attempt = 0,
              !.flushes[f].posts = 0,
              !.activeFlushing = IF how = "ok" THEN @ \ {f} ELSE @]

\* the promise of flush f settles and sendToHec is left (its attempt counter
\* is gone): both reactions of flushInternal remove the handle from the
\* active set
settle(s, f, how) ==
    [s EXCEPT !.flushes[f].pc = how, !.flushes[f].attempt = 0,
              !.flushes[f].posts = 0, !.activeFlushing = @ \ {f}]

\* a POST is started for attempt number a
startFetch(s, f, a) ==
    [s EXCEPT !.flushes[f].pc = "fetch", !.flushes[f].attempt = a,
              !.flushes[f].posts = @ + 1]

catchBlock_noErrorCount(s, f) ==
    LET fl == s.flushes[f]
    IN  IF fl.aborted THEN settle(s, f, "aborted")
        ELSE IF fl.attempt <= config.maxRetries
             THEN [s EXCEPT !.flushes[f].pc = "sleep"]
             ELSE startFetch(s, f, fl.attempt + 1)

\* the catch block of the retry loop, up to its first await
catchBlock(s, f) ==
    LET s1 == [s EXCEPT !.counters.errorCount = @ + 1]
        fl == s1.flushes[f]
    IN  IF fl.aborted THEN settle(s1, f, "aborted")
        ELSE IF fl.attempt <= config.maxRetries
             THEN [s1 EXCEPT !.flushes[f].pc = "sleep"]
             ELSE startFetch(s1, f, fl.attempt + 1)

afterSleep_noAbortCheck(s, f) ==
    startFetch([s EXCEPT !.counters.retryCount = @ + 1], f,
               s.flushes[f].attempt + 1)

\* the catch block after its sleep
afterSleep(s, f) ==
    IF s.flushes[f].aborted THEN settle(s, f, "aborted")
    ELSE startFetch([s EXCEPT !.counters.retryCount = @ + 1], f,
                    s.flushes[f].attempt + 1)

fetchOk_sentBytesFromWire(s, f) ==
    LET fl == s.flushes[f]
        rawBodySize == SumLen(fl.msgs)
        bodySize == IF config.gzip THEN compressBody(rawBodySize) ELSE rawBodySize
    IN  settle([s EXCEPT !.counters.sentMessages = @ + Len(fl.msgs),
                         !.counters.sentBytes = @ + bodySize,
                         !.counters.transferredBytes = @ + bodySize],
               f, "ok")

\* a 2xx response
fetchOk(s, f) ==
    LET fl == s.flushes[f]
        rawBodySize == SumLen(fl.msgs)
        bodySize == IF config.gzip THEN compressBody(rawBodySize) ELSE rawBodySize
    IN  settle([s EXCEPT !.counters.sentMessages = @ + Len(fl.msgs),
                         !.counters.sentBytes = @ + rawBodySize,
                         !.counters.transferredBytes = @ + bodySize],
               f, "ok")

\* compressBody resolved: the first POST; fetch rejects at once, without a
\* request, when the signal is already aborted
afterCompress(s, f) ==
    IF s.flushes[f].aborted
    THEN catchBlock([s EXCEPT !.flushes[f].attempt = 1], f)
    ELSE startFetch(s, f, 1)

compressFailed_retried(s, f) ==
    catchBlock([s EXCEPT !.flushes[f].attempt = 1], f)

\* compressBody rejected: the await is before the try of the retry loop, so
\* the promise of sendToHec rejects with the error
compressFailed(s, f) == settle(s, f, "error")

\* sendToHec up to its first await
sendToHec(s, f, msgs) ==
    LET fl == [msgs |-> msgs, aborted |-> FALSE, attempt |-> 0, posts |-> 0,
               pc |-> "compress", awaited |-> FALSE]
        s1 == [s EXCEPT !.flushes = Append(@, fl)]
    IN  IF config.gzip THEN s1 ELSE startFetch(s1, f, 1)

\* -------------------------------------------------------- flushInternal
flushInternal_keepsByteTotal(s) ==
    LET s1 == [s EXCEPT !.flushTimer = FALSE]
    IN  IF Len(s1.queue) = 0 THEN s1
        ELSE LET f == Len(s1.flushes) + 1
                 s2 == [s1 EXCEPT !.queue = <<>>]
                 s3 == sendToHec(s2, f, s1.queue)
             IN  [s3 EXCEPT !.activeFlushing = @ \cup {f}]

flushInternal_noEmptyCheck(s) ==
    LET s1 == [s EXCEPT !.flushTimer = FALSE]
        f == Len(s1.flushes) + 1
        s2 == [s1 EXCEPT !.queue = <<>>, !.queueSizeBytes = 0]
        s3 == sendToHec(s2, f, s1.queue)
    IN  [s3 EXCEPT !.activeFlushing = @ \cup {f}]

flushInternal(s) ==
    LET s1 == [s EXCEPT !.flushTimer = FALSE]
    IN  IF Len(s1.queue) = 0 THEN s1
        ELSE LET f == Len(s1.flushes) + 1
                 s2 == [s1 EXCEPT !.queue = <<>>, !.queueSizeBytes = 0]
                 s3 == sendToHec(s2, f, s1.queue)
             IN  [s3 EXCEPT !.activeFlushing = @ \cup {f}]

\* the handle behind the promise flushInternal returns (0: already resolved)
flushInternalHandle(s) == IF Len(s.queue) = 0 THEN 0 ELSE Len(s.flushes) + 1

scheduleFlush_noReturn(s) ==
    LET s1 == IF config.maxQueueEntries # -1 /\ Len(s.queue) > config.maxQueueEntries
              THEN flushInternal(s) ELSE s
    IN  IF ~s1.flushTimer THEN [s1 EXCEPT !.flushTimer = TRUE] ELSE s1

scheduleFlush_noTimerOverLimit(s) ==
    IF config.maxQueueEntries # -1 /\ Len(s.queue) > config.maxQueueEntries
    THEN flushInternal(s)
    ELSE IF ~s.flushTimer /\ s.queueSizeBytes <= config.maxQueueSize
         THEN [s EXCEPT !.flushTimer = TRUE] ELSE s

scheduleFlush_noDisabledCheck(s) ==
    IF Len(s.queue) > config.maxQueueEntries
    THEN flushInternal(s)
    ELSE IF ~s.flushTimer THEN [s EXCEPT !.flushTimer = TRUE] ELSE s

scheduleFlush(s) ==
    IF config.maxQueueEntries # -1 /\ Len(s.queue) > config.maxQueueEntries
    THEN flushInternal(s)
    ELSE IF ~s.flushTimer THEN [s EXCEPT !.flushTimer = TRUE] ELSE s

enqueue_flushAfterAppend(s, len) ==
    LET s1 == [s EXCEPT !.counters.queuedMessages = @ + 1,
                        !.counters.queuedBytes = @ + len,
                        !.accepted = @ + 1]
        s2 == [s1 EXCEPT !.queueSizeBytes = @ + len,
                         !.queue = Append(@, [id |-> s1.accepted, len |-> len])]
        s3 == IF s2.queueSizeBytes > config.maxQueueSize
              THEN flushInternal(s2) ELSE s2
    IN  IF Len(s3.queue) = 0 THEN s3 ELSE scheduleFlush(s3)

enqueue_unshift(s, len) ==
    LET s1 == [s EXCEPT !.counters.queuedMessages = @ + 1,
                        !.counters.queuedBytes = @ + len,
                        !.accepted = @ + 1]
        s2 == IF s1.queueSizeBytes + len > config.maxQueueSize
              THEN flushInternal(s1) ELSE s1
        s3 == [s2 EXCEPT !.queueSizeBytes = @ + len,
                         !.queue = <<[id |-> s1.accepted, len |-> len]>> \o @]
    IN  scheduleFlush(s3)

enqueue_noQueuedBytes(s, len) ==
    LET s1 == [s EXCEPT !.counters.queuedMessages = @ + 1,
                        !.accepted = @ + 1]
        s2 == IF s1.queueSizeBytes + len > config.maxQueueSize
              THEN flushInternal(s1) ELSE s1
        s3 == [s2 EXCEPT !.queueSizeBytes = @ + len,
                         !.queue = Append(@, [id |-> s1.accepted, len |-> len])]
    IN  scheduleFlush(s3)

\* pushSerializedMsg after its check of this.active
enqueue(s, len) ==
    LET s1 == [s EXCEPT !.counters.queuedMessages = @ + 1,
                        !.counters.queuedBytes = @ + len,
                        !.accepted = @ + 1]
        s2 == IF s1.queueSizeBytes + len > config.maxQueueSize
              THEN flushInternal(s1) ELSE s1
        s3 == [s2 EXCEPT !.queueSizeBytes = @ + len,
                         !.queue = Append(@, [id |-> s1.accepted, len |-> len])]
    IN  scheduleFlush(s3)

pushSerializedMsg_noActiveCheck(s, len) == enqueue(s, len)

pushSerializedMsg(s, len) ==
    IF ~s.active THEN [s EXCEPT !.threw = TRUE] ELSE enqueue(s, len)

RECURSIVE pushEach(_, _, _)
pushEach(s, n, len) ==
    IF n = 0 \/ s.threw THEN s ELSE pushEach(pushSerializedMsg(s, len), n - 1, len)

\* ------------------------------------------------------ flush, shutdown
\* state of Promise.all over the promises of the flushes w
waitStatus(s, w) ==
    IF \E f \in w : s.flushes[f].pc \in {"aborted", "error"} THEN "rejected"
    ELSE IF \A f \in w : s.flushes[f].pc = "ok" THEN "resolved"
    ELSE "pending"

\* the handles flush() awaits: the active flushes and the one flushInternal()
\* dispatches
flushWaits(s) ==
    LET h == flushInternalHandle(s)
    IN  s.activeFlushing \cup (IF h = 0 THEN {} ELSE {h})

\* flush(): Promise.all over the active flushes and flushInternal(); the
\* returned promise is observed when observe holds
flushCall(s, observe) ==
    LET w == flushWaits(s)
        s1 == flushInternal(s)
    IN  IF w = {} THEN s1
        ELSE [s1 EXCEPT !.flushCalls = IF observe THEN @ \cup {w} ELSE @,
                        !.flushes = [f \in DOMAIN @ |->
                            IF f \in w THEN [@[f] EXCEPT !.awaited = TRUE] ELSE @[f]]]

\* FlushHandle.cancel: abort the controller; a pending fetch rejects
cancel(s, f) ==
    IF s.flushes[f].aborted THEN s
    ELSE LET s1 == [s EXCEPT !.flushes[f].aborted = TRUE]
         IN  IF s1.flushes[f].pc = "fetch" THEN catchBlock(s1, f) ELSE s1

RECURSIVE cancelEach(_, _)
cancelEach(s, F) ==
    IF F = {} THEN s
    ELSE LET f == CHOOSE x \in F : TRUE
         IN  cancelEach(cancel(s, f), F \ {f})

\* shutdown after its await: cancel what is still in flight, then return
shutdownResume(s) ==
    LET s1 == cancelEach(s, s.activeFlushing)
    IN  [s1 EXCEPT !.settled = @ \cup {"resolved"}]

\* the promise reactions of one turn: a shutdown call whose flush() settled
\* resumes or fails; settled flush() promises are dropped
RECURSIVE runReactions(_)
runReactions(s) ==
    LET R == {w \in s.racing : waitStatus(s, w) # "pending"}
    IN  IF R = {}
        THEN [s EXCEPT !.flushCalls = {w \in @ : waitStatus(s, w) = "pending"}]
        ELSE LET w == CHOOSE x \in R : TRUE
                 s1 == [s EXCEPT !.racing = @ \ {w}]
             IN  IF waitStatus(s, w) = "resolved"
                 THEN runReactions(shutdownResume(s1))
                 ELSE runReactions([s1 EXCEPT !.settled = @ \cup {"rejected"}])

shutdownCall(s, withMaxTime) ==
    LET s1 == [s EXCEPT !.active = FALSE]
    IN  IF withMaxTime /\ (s1.activeFlushing # {} \/ Len(s1.queue) > 0)
        THEN [flushCall(s1, FALSE) EXCEPT !.racing = @ \cup {flushWaits(s1)},
                                   !.settled = @ \cup {"racing"}]
        ELSE shutdownResume(s1)

flushStatsCall_snapshotAfterReset(s) ==
    LET s1 == [s EXCEPT !.counters = initialCounters, !.statsTaken = TRUE]
    IN  [s1 EXCEPT !.stats = <<[counters |-> s1.counters,
                               activeFlushingCount |-> Cardinality(s1.activeFlushing),
                               queueSize |-> Len(s1.queue),
                               queueSizeBytes |-> s1.queueSizeBytes]>>]

\* flushStats: the counters, the size of the active set and of the queue are
\* returned, then the counters start again from initialCounters
flushStatsCall(s) ==
    [s EXCEPT !.stats = <<[counters |-> s.counters,
                           activeFlushingCount |-> Cardinality(s.activeFlushing),
                           queueSize |-> Len(s.queue),
                           queueSizeBytes |-> s.queueSizeBytes]>>,
              !.counters = initialCounters,
              !.statsTaken = TRUE]

\* -------------------------------------------------------------- actions
\* the fields of a client after construction
InitFields ==
    /\ active = TRUE
    /\ queue = <<>>
    /\ queueSizeBytes = 0
    /\ flushTimer = FALSE
    /\ activeFlushing = {}
    /\ counters = initialCounters
    /\ flushes = <<>>
    /\ flushCalls = {}
    /\ racing = {}
    /\ accepted = 0
    /\ failures = 0
    /\ lastCall = NoCall
    /\ settled = {}
    /\ statsTaken = FALSE
    /\ lastStats = <<>>

\* ---------------------------------------------------------------- clone
Undef == "undefined"
Urls == {"http://a", "https://b"}
Tokens == {"t1", "t2"}

\* configOverrides: absent, or an object whose url and token may be undefined
NoOverrides == [absent |-> TRUE]
Overrides ==
    {NoOverrides} \cup [url : Urls \cup {Undef}, token : Tokens \cup {Undef}]

\* removeEmtpyValues: the keys whose value is not null or undefined
removeEmtpyValues(o) == {k \in DOMAIN o : o[k] # Undef}

\* deepMerge: the values of b where b has one, those of a elsewhere
deepMerge(a, b) ==
    [k \in DOMAIN a |-> IF k \in DOMAIN b /\ b[k] # Undef THEN b[k] ELSE a[k]]

\* new HecClient(config) as instance number id: its own queue, active-flush
\* set and agent
newHecClient(id, cfg, cs) ==
    [url |-> cfg.url, token |-> cfg.token,
     queue |-> id, activeFlushing |-> id,
     httpAgent |-> 1 + Len(cs)]

\* the client instances after this.clone(o), and the instance returned
clone_alwaysReusesAgent(cs, self, o) ==
    IF o = NoOverrides \/ removeEmtpyValues(o) = {}
    THEN [clients |-> cs, result |-> self]
    ELSE LET id == Len(cs) + 1
             cfg == deepMerge([url |-> cs[self].url, token |-> cs[self].token], o)
             cloned == newHecClient(id, cfg, cs)
         IN  [clients |-> Append(cs, [cloned EXCEPT !.httpAgent = cs[self].httpAgent]),
              result |-> id]

clone(cs, self, o) ==
    IF o = NoOverrides \/ removeEmtpyValues(o) = {}
    THEN [clients |-> cs, result |-> self]
    ELSE LET id == Len(cs) + 1
             cfg == deepMerge([url |-> cs[self].url, token |-> cs[self].token], o)
             cloned == newHecClient(id, cfg, cs)
         IN  IF o.url # Undef /\ o.url # cs[self].url
             THEN [clients |-> Append(cs, cloned), result |-> id]
             ELSE [clients |-> Append(cs, [cloned EXCEPT !.httpAgent = cs[self].httpAgent]),
                   result |-> id]

\* one client, constructed with new HecClient(config), and no clone of it
OneClient ==
    /\ clients = <<newHecClient(1, [url |-> "http://a", token |-> "t1"], <<>>)>>
    /\ lastClone = <<>>

\* ---------------------------------------------------------- AbortHandle
\* new AbortHandle()
NewAbortHandle ==
    /\ groupAborted = FALSE
    /\ handles = {}
    /\ tasks = <<>>

\* the AbortHandle as one record
Ah == [aborted |-> groupAborted, handles |-> handles, tasks |-> tasks]

CommitAh(h) ==
    /\ groupAborted' = h.aborted
    /\ handles' = h.handles
    /\ tasks' = h.tasks
    /\ UNCHANGED <<hecVars, cloneVars>>

\* DefaultAbortPromise.abort with the reactions to it: the promise rejects
\* with ABORT once; a pending raceAbort(p, abort) then rejects with ABORT
triggerAbort(task) ==
    IF task.triggered THEN task
    ELSE [task EXCEPT !.triggered = TRUE,
                      !.state = IF task.kind = "race" /\ @ = "running"
                                THEN "ABORT" ELSE @]

abort_keepsHandles(h) ==
    [h EXCEPT !.aborted = TRUE,
              !.tasks = [t \in DOMAIN @ |->
                            IF t \in h.handles THEN triggerAbort(@[t]) ELSE @[t]]]

\* AbortHandle.abort
abort(h) ==
    [h EXCEPT !.aborted = TRUE,
              !.tasks = [t \in DOMAIN @ |->
                            IF t \in h.handles THEN triggerAbort(@[t]) ELSE @[t]],
              !.handles = {}]

finally_noDelete(h, t) == h

\* the finally block of withAbort, when the awaited promise has settled
finally(h, t) == [h EXCEPT !.handles = @ \ {t}]

\* AbortHandle.withAbort(fn), and race(p) as withAbort of raceAbort(p, abort):
\* outcome is what fn (or p) does in the turn of the call: it stays pending,
\* it has "returned" or "threw", or it calls abort() of the group and stays
\* pending
withAbort(h, kind, outcome) ==
    IF h.aborted
    THEN [h EXCEPT !.tasks = Append(@, [kind |-> kind, state |-> "ABORT",
                                        token |-> FALSE, triggered |-> FALSE,
                                        invoked |-> FALSE])]
    ELSE LET t == Len(h.tasks) + 1
             task == [kind |-> kind, state |-> "running", token |-> TRUE,
                      triggered |-> FALSE, invoked |-> TRUE]
             h1 == [h EXCEPT !.tasks = Append(@, task), !.handles = @ \cup {t}]
         IN  CASE outcome = "pending" -> h1
               [] outcome = "aborts" -> abort(h1)
               [] OTHER -> finally([h1 EXCEPT !.tasks[t].state = outcome], t)

\* the promise of fn (or p) settles: the await in withAbort ends
settleTask(h, t, how) == finally([h EXCEPT !.tasks[t].state = how], t)

\* abort() of the token of call t alone, by the closure that holds it
tokenAbort(h, t) ==
    LET h1 == [h EXCEPT !.tasks[t] = triggerAbort(@)]
    IN  IF h1.tasks[t].state = "ABORT" THEN finally(h1, t) ELSE h1

Init == config \in Configs /\ InitFields /\ OneClient /\ NewAbortHandle

\* one client with any url and token
InitClone ==
    /\ config \in Configs /\ InitFields
    /\ clients \in {<<newHecClient(1, [url |-> u, token |-> t], <<>>)>> :
                        u \in Urls, t \in Tokens}
    /\ lastClone = <<>>
    /\ NewAbortHandle

\* push / pushEvent / pushMetric
push ==
    \E len \in MsgLens :
        LET s == pushSerializedMsg(St, len)
        IN  /\ s.accepted <= MaxAccepted
            /\ Commit(s)
            /\ Called("push", 1, s.threw)

\* pushMetrics with n non-null measurements: one message in the multi-metric
\* format, one message per measurement otherwise
pushMetrics ==
    \E n \in 0..(MaxAccepted - accepted), len \in MsgLens :
        LET k == IF config.multipleMetricFormatEnabled THEN 1 ELSE n
            s == pushEach(St, k, len)
        IN  /\ s.accepted <= MaxAccepted
            /\ Commit(s)
            /\ Called("pushMetrics", k, s.threw)

flush ==
    /\ Commit(runReactions(flushCall(St, flushCalls = {})))
    /\ NotAPush

flushStats ==
    /\ Commit(flushStatsCall(St))
    /\ NotAPush

shutdown ==
    \E withMaxTime \in BOOLEAN :
        /\ Commit(runReactions(shutdownCall(St, withMaxTime)))
        /\ NotAPush

\* sleep(maxTime) wins the race of a shutdown call
shutdownTimeout ==
    \E w \in racing :
        /\ Commit(runReactions(shutdownResume([St EXCEPT !.racing = @ \ {w}])))
        /\ NotAPush

\* the idle timer fires
flushTimeout ==
    /\ flushTimer
    /\ Commit(flushInternal(St))
    /\ NotAPush

compressOk ==
    \E f \in activeFlushing :
        /\ flushes[f].pc = "compress"
        /\ Commit(runReactions(afterCompress(St, f)))
        /\ NotAPush

compressFail ==
    \E f \in activeFlushing :
        /\ flushes[f].pc = "compress"
        /\ Commit(runReactions(compressFailed(St, f)))
        /\ NotAPush

\* the POST gets a 2xx response
responseOk ==
    \E f \in activeFlushing :
        /\ flushes[f].pc = "fetch"
        /\ Commit(runReactions(fetchOk(St, f)))
        /\ NotAPush

\* the POST fails: network error, timeout or a non-2xx response
responseFail ==
    \E f \in activeFlushing :
        /\ flushes[f].pc = "fetch"
        /\ failures < MaxFailures
        /\ Commit(runReactions(catchBlock([St EXCEPT !.failures = @ + 1], f)))
        /\ NotAPush

\* the sleep between two attempts is over
sleepElapsed ==
    \E f \in activeFlushing :
        /\ flushes[f].pc = "sleep"
        /\ Commit(runReactions(afterSleep(St, f)))
        /\ NotAPush

cloneCall ==
    \E self \in 1..Len(clients), o \in Overrides :
        LET r == clone(clients, self, o)
        IN  /\ Len(r.clients) <= MaxClients
            /\ clients' = r.clients
            /\ lastClone' = <<[self |-> self, overrides |-> o, result |-> r.result]>>
            /\ UNCHANGED <<hecVars, abortVars>>

Next ==
    \/ push
    \/ pushMetrics
    \/ flush
    \/ shutdown
    \/ shutdownTimeout
    \/ flushTimeout
    \/ compressOk
    \/ compressFail
    \/ responseOk
    \/ responseFail
    \/ sleepElapsed

\* The client without calls of flushStats.  flushStats writes the counters
\* only and nothing reads them, so the other variables behave the same with
\* and without it.
Spec == Init /\ [][Next]_vars

NextStats == Next \/ flushStats

\* The client with calls of flushStats.
SpecStats == Init /\ [][NextStats]_vars

\* The client with an idle timer that fires when it is due: setTimeout calls
\* its callback once the delay is over.
SpecFair == Spec /\ WF_vars(flushTimeout)

abortCall == CommitAh(abort(Ah))

withAbortCall ==
    \E outcome \in {"pending", "returned", "threw", "aborts"} :
        /\ Len(tasks) < MaxTasks
        /\ CommitAh(withAbort(Ah, "fn", outcome))

raceCall ==
    \E outcome \in {"pending", "returned", "threw"} :
        /\ Len(tasks) < MaxTasks
        /\ CommitAh(withAbort(Ah, "race", outcome))

\* the promise of a running closure, or the promise raced, settles
settles ==
    \E t \in 1..Len(tasks), how \in {"returned", "threw"} :
        /\ tasks[t].state = "running"
        /\ CommitAh(settleTask(Ah, t, how))

tokenAbortCall ==
    \E t \in 1..Len(tasks) :
        /\ tasks[t].state = "running" /\ ~tasks[t].triggered
        /\ CommitAh(tokenAbort(Ah, t))

\* One AbortHandle, its abort, withAbort and race calls.
NextAbort ==
    \/ abortCall
    \/ withAbortCall
    \/ raceCall
    \/ settles
    \/ tokenAbortCall

SpecAbort == Init /\ [][NextAbort]_vars

\* Calls of clone on the client and on its clones.
NextClone == cloneCall
SpecClone == InitClone /\ [][NextClone]_vars

\* a configuration with gzip and with retries
GzipRetryConfigs ==
    { [gzip |-> TRUE, maxRetries |-> 1, maxQueueSize |-> 2, maxQueueEntries |-> -1,
       multipleMetricFormatEnabled |-> FALSE] }

InitGzipRetry ==
    config \in GzipRetryConfigs /\ InitFields /\ OneClient /\ NewAbortHandle

\* The client constructed with gzip and maxRetries = 1.
SpecGzipRetry == InitGzipRetry /\ [][Next]_vars

\* configurations with maxQueueEntries 0 and 1 and room for more bytes
EntryConfigs ==
    { [gzip |-> FALSE, maxRetries |-> 1, maxQueueSize |-> 4, maxQueueEntries |-> 0,
       multipleMetricFormatEnabled |-> FALSE],
      [gzip |-> TRUE, maxRetries |-> 0, maxQueueSize |-> 4, maxQueueEntries |-> 1,
       multipleMetricFormatEnabled |-> FALSE] }

InitEntries ==
    config \in EntryConfigs /\ InitFields /\ OneClient /\ NewAbortHandle

\* The client constructed with maxQueueEntries 0 or 1.
SpecEntries == InitEntries /\ [][Next]_vars

\* ------------------------------------------------------------- the claims
Handles == 1..Len(flushes)
InFlight(f) == flushes[f].pc \in {"compress", "fetch", "sleep"}
Ids(q) == {q[i].id : i \in 1..Len(q)}

\* the places of the record id: the queue, the batch of a flush in flight, a
\* batch counted in sentMessages, a cancelled batch that a flush() awaited
Places(id) ==
    (IF id \in Ids(queue) THEN {<<"queue", 0>>} ELSE {})
    \cup {<<"inflight", f>> : f \in {g \in Handles :
             g \in activeFlushing /\ id \in Ids(flushes[g].msgs)}}
    \cup {<<"sent", f>> : f \in {g \in Handles :
             flushes[g].pc = "ok" /\ id \in Ids(flushes[g].msgs)}}
    \cup {<<"cancelled", f>> : f \in {g \in Handles :
             /\ flushes[g].pc = "aborted" /\ flushes[g].awaited
             /\ id \in Ids(flushes[g].msgs)}}

\* C1: every accepted record is in exactly one place: the queue, the batch of
\* a flush in flight, a batch counted in sentMessages, or a cancelled batch
\* whose cancellation reached a caller of flush().
C1_ExactlyOnePlace ==
    \A id \in 1..accepted : Cardinality(Places(id)) = 1

\* C2: with maxRetries = k a batch is POSTed at most k + 1 times.
C2_AtMostMaxRetriesPlusOnePosts ==
    \A f \in Handles : flushes[f].posts <= config.maxRetries + 1

\* C3: after shutdown every call of push, pushEvent, pushMetric and
\* pushMetrics throws.
C3_EveryPushAfterShutdownThrows ==
    lastCall.op # "none" => lastCall.threw

\* C3 as amended: after shutdown a push operation throws if and only if it
\* has a message to enqueue (push, pushEvent and pushMetric always have), and
\* in both cases it changes nothing.
C3_PushAfterShutdown ==
    [][lastCall'.op # "none" =>
          /\ lastCall'.threw <=> lastCall'.msgs
          /\ lastCall'.op = "push" => lastCall'.threw
          /\ UNCHANGED <<queue, queueSizeBytes, counters, flushTimer,
                         activeFlushing, active, flushes, accepted>>]_vars

C3_Witness ==
    /\ lastCall.op = "pushMetrics" /\ lastCall.threw
    /\ Len(queue) > 0 /\ flushTimer /\ activeFlushing # {}

\* C4: the promise of flush() settles only when none of the flushes it
\* awaits is in the active-flush set any more.
C4_FlushSettlesAfterAllItsFlushes ==
    [][\A w \in flushCalls :
          w \notin flushCalls' => w \cap activeFlushing' = {}]_vars

C6_ShutdownNeverRejects == "rejected" \notin settled

\* C7: when a shutdown call returns, every flush still in the active-flush
\* set has its token triggered.
C7_AllCancelledWhenShutdownReturns ==
    settled \cap {"resolved", "rejected"} # {}
        => \A f \in activeFlushing : flushes[f].aborted

\* C8: queueSizeBytes is the sum of the lengths of the queued messages, and
\* it is 0 exactly when the queue is empty.
C8_QueueSizeBytes ==
    /\ queueSizeBytes = SumLen(queue)
    /\ (queueSizeBytes = 0) = (queue = <<>>)

C8_Witness ==
    /\ Len(queue) = 1 /\ queueSizeBytes = 3
    /\ \E f \in Handles : flushes[f].pc = "aborted"

\* C9: a handle is in the active-flush set if and only if its send was
\* dispatched and its promise has not settled.
C9_ActiveIffPending ==
    activeFlushing = {f \in Handles : InFlight(f)}

C9_Witness ==
    /\ \E f \in Handles : flushes[f].pc = "aborted"
    /\ \E f \in Handles : flushes[f].pc = "ok"
    /\ activeFlushing = {}

\* the flushes whose POST gets its 2xx response in this step
NewlySent == {f \in Handles : InFlight(f) /\ flushes'[f].pc = "ok"}
SentCounters(c) == <<c.sentMessages, c.sentBytes, c.transferredBytes>>

\* C10: a batch adds to sentMessages, sentBytes and transferredBytes once,
\* when a POST of it gets a 2xx response: its message count, its raw size
\* and its wire size; a batch that fails or is cancelled adds nothing.
C10_SentCounters ==
    [][/\ \A f \in NewlySent :
             LET raw == SumLen(flushes[f].msgs)
             IN  /\ NewlySent = {f}
                 /\ counters'.sentMessages =
                        counters.sentMessages + Len(flushes[f].msgs)
                 /\ counters'.sentBytes = counters.sentBytes + raw
                 /\ counters'.transferredBytes = counters.transferredBytes +
                        (IF config.gzip THEN compressBody(raw) ELSE raw)
       /\ NewlySent = {} =>
             \/ SentCounters(counters') = SentCounters(counters)
             \/ counters' = initialCounters
       /\ \A f \in Handles : ~InFlight(f) => flushes'[f].pc = flushes[f].pc]_vars

C10_Witness ==
    /\ config.gzip
    /\ \E f \in Handles : flushes[f].pc = "ok" /\ SumLen(flushes[f].msgs) = 3
    /\ \E f \in Handles : flushes[f].pc = "aborted"
    /\ SentCounters(counters) = <<1, 3, 2>>

\* C11: a batch whose POSTs fail k <= maxRetries times and then get a 2xx
\* response has added k to errorCount and k to retryCount.  The counters are
\* shared by the batches, so the step is observed when every failed POST so
\* far was one of this batch and no flush was cancelled.
C11_RetryCounts ==
    [][\A f \in Handles :
          (/\ flushes[f].pc = "fetch" /\ flushes'[f].pc = "ok"
           /\ flushes[f].attempt <= config.maxRetries + 1
           /\ failures = flushes[f].attempt - 1
           /\ \A g \in Handles : ~flushes[g].aborted)
          => /\ counters'.errorCount = flushes[f].attempt - 1
             /\ counters'.retryCount = flushes[f].attempt - 1]_vars

C11_Witness ==
    /\ failures = 1 /\ counters.errorCount = 1 /\ counters.retryCount = 1
    /\ counters.sentMessages > 0
    /\ \A g \in Handles : ~flushes[g].aborted /\ flushes[g].pc = "ok"

\* the record ids of a sequence of messages, in its order
IdSeq(q) == [i \in 1..Len(q) |-> q[i].id]
Increasing(ids) == \A i, j \in 1..Len(ids) : i < j => ids[i] < ids[j]

\* C12: the messages of every batch, and of the queue, are in the order of
\* their push calls (record ids are given in push order).
C12_BatchKeepsPushOrder ==
    /\ Increasing(IdSeq(queue))
    /\ \A f \in Handles : Increasing(IdSeq(flushes[f].msgs))

C12_Witness ==
    \E f \in Handles :
        /\ Len(flushes[f].msgs) = 2 /\ flushes[f].pc = "fetch"
        /\ IdSeq(flushes[f].msgs) = <<1, 2>>

\* the message with record id, in the queue or in a batch, after the step
MsgAfter(id) ==
    CHOOSE m \in {queue'[i] : i \in 1..Len(queue')}
                 \cup UNION {{flushes'[f].msgs[i] : i \in 1..Len(flushes'[f].msgs)} :
                              f \in 1..Len(flushes')} : m.id = id
Oversized(m) == m.len > config.maxQueueSize
Dispatched(id) == \E f \in Handles : id \in Ids(flushes[f].msgs)

\* C13: a push of one message larger than maxQueueSize is accepted: the queue
\* content before it is dispatched without it, the message is then alone in
\* the queue with the idle timer armed, and it is dispatched later.
C13_OversizedStillSent ==
    /\ [][(active /\ accepted' = accepted + 1 /\ Oversized(MsgAfter(accepted')))
            => /\ queue' = <<MsgAfter(accepted')>>
               /\ flushTimer'
               /\ queue # <<>> =>
                     /\ Len(flushes') = Len(flushes) + 1
                     /\ flushes'[Len(flushes')].msgs = queue
               /\ queue = <<>> => Len(flushes') = Len(flushes)]_vars
    /\ \A id \in 1..MaxAccepted :
          (\E i \in 1..Len(queue) : queue[i].id = id /\ Oversized(queue[i]))
              ~> Dispatched(id)

C13_Witness ==
    /\ Len(queue) = 1 /\ Oversized(queue[1]) /\ queue[1].id = 2 /\ flushTimer
    /\ Len(flushes) = 1 /\ IdSeq(flushes[1].msgs) = <<1>>

\* the flushes dispatched by the step
NewFlushes == (Len(flushes) + 1)..Len(flushes')
LastId(msgs) == msgs[Len(msgs)].id

\* C14: with maxQueueEntries = -1 a push never dispatches a batch because of
\* the number of entries: every batch a push call dispatches went out by the
\* byte threshold, before a newcomer that would have crossed maxQueueSize.
C14_EntryTriggerDisabled ==
    [][(config.maxQueueEntries = -1 /\ accepted' > accepted) =>
          \A g \in NewFlushes :
              LET batch == flushes'[g].msgs
              IN  /\ LastId(batch) < accepted'
                  /\ SumLen(batch) + MsgAfter(LastId(batch) + 1).len
                         > config.maxQueueSize]_vars

C14_Witness ==
    /\ config.maxQueueEntries = -1
    /\ Len(queue) = 2 /\ flushTimer /\ flushes = <<>>

\* a batch or queue content that is over maxQueueSize by at most one message
OverByAtMostOne(msgs) ==
    \/ SumLen(msgs) <= config.maxQueueSize
    \/ \E i \in 1..Len(msgs) : SumLen(msgs) - msgs[i].len <= config.maxQueueSize

\* C20: a push whose message would take the queue byte total over
\* maxQueueSize dispatches the queue content first, without the newcomer.
\* So the queue is within maxQueueSize or holds a single message, and every
\* batch is over maxQueueSize by at most one message.
C20_FlushBeforeAppend ==
    /\ [](queueSizeBytes <= config.maxQueueSize \/ Len(queue) = 1)
    /\ [](\A f \in Handles : OverByAtMostOne(flushes[f].msgs))
    /\ [][(/\ active /\ accepted' = accepted + 1 /\ queue # <<>>
            /\ queueSizeBytes + MsgAfter(accepted').len > config.maxQueueSize)
           => /\ NewFlushes # {}
              /\ flushes'[Len(flushes) + 1].msgs = queue
              /\ accepted' \notin Ids(flushes'[Len(flushes) + 1].msgs)]_vars

C20_Witness ==
    /\ Len(flushes) = 1 /\ SumLen(flushes[1].msgs) = 3
    /\ Len(queue) = 1 /\ queue[1].id = 2 /\ queueSizeBytes = 1

\* what flushStats returns in the state before the step
Snapshot ==
    [counters |-> counters, activeFlushingCount |-> Cardinality(activeFlushing),
     queueSize |-> Len(queue), queueSizeBytes |-> queueSizeBytes]

\* C16: flushStats returns the counters with the queue depth and byte total
\* and leaves the counters, the queue, the byte total, the idle timer, the
\* active flag and the active-flush set unchanged.
C16_FlushStatsChangesNothing ==
    [][lastStats' # <<>> =>
          /\ lastStats'[1] = Snapshot
          /\ UNCHANGED <<counters, queue, queueSizeBytes, flushTimer, active,
                         activeFlushing>>]_vars

\* C16 as amended: flushStats returns the counters with the queue depth and
\* byte total and then resets every counter to 0; it leaves the queue, the
\* byte total, the idle timer, the active flag, the active-flush set and the
\* flushes in flight unchanged.
C16_FlushStatsResetsCounters ==
    [][lastStats' # <<>> =>
          /\ lastStats'[1] = Snapshot
          /\ counters' = initialCounters
          /\ UNCHANGED <<queue, queueSizeBytes, flushTimer, active,
                         activeFlushing, flushes>>]_vars

C16_Witness ==
    /\ lastStats # <<>>
    /\ lastStats[1].counters.sentMessages > 0
    /\ lastStats[1].counters.errorCount > 0
    /\ lastStats[1].queueSize > 0
    /\ counters = initialCounters

\* C17: a flush fails with the compression error only once its retries are
\* used up.
C17_CompressFailureRetried ==
    [][\A f \in Handles :
          (InFlight(f) /\ flushes'[f].pc = "error")
              => flushes[f].attempt > config.maxRetries]_vars

\* C17 as amended: compression runs once, before the retry loop.  A flush
\* that is compressing makes its first POST, is cancelled, or fails; when it
\* fails it does so at once, without a POST, a sleep or a retry, errorCount
\* and retryCount stay as they are and the handle leaves the active-flush set.
C17_CompressFailureFailsFlush ==
    [][\A f \in Handles :
          /\ flushes[f].pc = "compress" =>
                \/ flushes'[f].pc \in {"compress", "error", "aborted"}
                \/ /\ flushes'[f].pc = "fetch"
                   /\ flushes'[f].attempt = 1 /\ flushes'[f].posts = 1
          /\ (flushes[f].pc # "error" /\ flushes'[f].pc = "error") =>
                /\ flushes[f].pc = "compress" /\ flushes[f].posts = 0
                /\ counters'.errorCount = counters.errorCount
                /\ counters'.retryCount = counters.retryCount
                /\ f \notin activeFlushing']_vars

C17_Witness ==
    /\ config.gzip /\ config.maxRetries >= 1
    /\ \E f \in Handles : flushes[f].pc = "error" /\ f \notin activeFlushing
    /\ counters.errorCount = 0 /\ counters.retryCount = 0 /\ failures = 0
    /\ Len(queue) > 0

\* the clone call of the step
Cloned == lastClone'[1]
AgentsBefore == {clients[k].httpAgent : k \in 1..Len(clients)}

\* C15: clone returns the same instance for absent or empty overrides, a
\* distinct client with a pool of its own when the overrides change the url,
\* and a distinct client that shares the pool otherwise; a distinct clone has
\* a queue and an active-flush set of its own.
C15_Clone ==
    [][lastClone' # <<>> =>
          LET self == Cloned.self
              o == Cloned.overrides
              r == Cloned.result
              empty == o = NoOverrides \/ \A k \in DOMAIN o : o[k] = Undef
          IN  /\ empty => r = self /\ clients' = clients
              /\ ~empty =>
                    /\ r = Len(clients) + 1 /\ Len(clients') = r
                    /\ \A k \in 1..Len(clients) :
                          /\ clients'[k] = clients[k]
                          /\ clients'[r].queue # clients[k].queue
                          /\ clients'[r].activeFlushing # clients[k].activeFlushing
                    /\ clients'[r].url =
                          IF o.url # Undef THEN o.url ELSE clients[self].url
                    /\ IF clients'[r].url # clients[self].url
                       THEN clients'[r].httpAgent \notin AgentsBefore
                       ELSE clients'[r].httpAgent = clients[self].httpAgent]_vars

\* a clone for another url, then a clone of that clone with another token
C15_Witness ==
    /\ Len(clients) = 3
    /\ clients[2].url # clients[1].url
    /\ clients[2].httpAgent # clients[1].httpAgent
    /\ clients[3].url = clients[2].url /\ clients[3].token # clients[2].token
    /\ clients[3].httpAgent = clients[2].httpAgent
    /\ lastClone # <<>> /\ lastClone[1].self = 2 /\ lastClone[1].result = 3

Tasks == 1..Len(tasks)

\* C18: abort() triggers every registered token and empties the set; from
\* then on the set stays empty, a call of withAbort or race is rejected with
\* ABORT without invoking fn and without a token, and nothing else changes
\* but closures that end.
C18_AbortOnce ==
    /\ [](groupAborted => handles = {})
    /\ [][(~groupAborted /\ groupAborted') =>
             /\ handles' = {}
             /\ \A t \in handles : tasks'[t].triggered]_vars
    /\ [][groupAborted =>
             /\ groupAborted' /\ handles' = {}
             /\ \A t \in Tasks :
                   \/ tasks'[t] = tasks[t]
                   \/ /\ tasks[t].state = "running"
                      /\ \E how \in {"returned", "threw"} :
                            tasks'[t] = [tasks[t] EXCEPT !.state = how]
             /\ \A t \in (Len(tasks) + 1)..Len(tasks') :
                   /\ tasks'[t].state = "ABORT"
                   /\ ~tasks'[t].invoked /\ ~tasks'[t].token]_vars

C18_Witness ==
    /\ groupAborted /\ Len(tasks) = 3
    /\ tasks[1].state = "running" /\ tasks[1].triggered
    /\ tasks[2].state = "ABORT" /\ tasks[2].triggered
    /\ tasks[3].state = "ABORT" /\ ~tasks[3].invoked

\* C19: the set holds exactly the tokens of the withAbort calls whose
\* closure is still running, none once the group was aborted; a token is
\* registered un-triggered, and it is out of the set when its closure has
\* returned, thrown or been aborted.
C19_TokenScopedToClosure ==
    /\ [](handles = IF groupAborted THEN {}
                     ELSE {t \in Tasks : tasks[t].state = "running"})
    /\ [](\A t \in Tasks : tasks[t].token = tasks[t].invoked)
    /\ [][\A t \in (Len(tasks) + 1)..Len(tasks') :
             (tasks'[t].state = "running" /\ ~groupAborted')
                 => t \in handles' /\ tasks'[t].token /\ ~tasks'[t].triggered]_vars

C19_Witness ==
    /\ ~groupAborted /\ Len(tasks) = 3 /\ handles = {2}
    /\ tasks[1].state = "threw"
    /\ tasks[2].state = "running" /\ ~tasks[2].triggered
    /\ tasks[3].state = "returned"

\* the batches that a push of one message dispatched with that message in
\* them: the flushes by the entry count
EntryFlushes ==
    IF accepted' = accepted + 1
    THEN {g \in NewFlushes : accepted' \in Ids(flushes'[g].msgs)}
    ELSE {}

\* C21: a flush for the entry count is dispatched only if maxQueueEntries is
\* positive and the queue holds more entries than it; it takes the whole
\* queue and leaves no timer armed.  With maxQueueEntries = N > 0 the queue
\* holds at most N entries and a batch at most N + 1 messages.
C21_EntryFlushOnlyIfPositive ==
    /\ [][\A g \in EntryFlushes :
             /\ config.maxQueueEntries > 0
             /\ Len(flushes'[g].msgs) > config.maxQueueEntries
             /\ queue' = <<>> /\ ~flushTimer']_vars
    /\ [](config.maxQueueEntries > 0 =>
             /\ Len(queue) <= config.maxQueueEntries
             /\ \A f \in Handles :
                   Len(flushes[f].msgs) <= config.maxQueueEntries + 1)

\* C21 as amended: a flush for the entry count is dispatched if and only if
\* maxQueueEntries is not -1 and the queue holds more entries than it; it
\* takes the whole queue and leaves no timer armed.  With maxQueueEntries =
\* N >= 0 the queue holds at most N entries and a batch at most N + 1
\* messages.
C21_EntryFlushUnlessDisabled ==
    /\ [][/\ \A g \in EntryFlushes :
                /\ config.maxQueueEntries # -1
                /\ Len(flushes'[g].msgs) > config.maxQueueEntries
                /\ queue' = <<>> /\ ~flushTimer'
          /\ (active /\ accepted' = accepted + 1 /\ EntryFlushes = {}) =>
                /\ accepted' \in Ids(queue') /\ flushTimer'
                /\ config.maxQueueEntries = -1
                      \/ Len(queue') <= config.maxQueueEntries]_vars
    /\ [](config.maxQueueEntries >= 0 =>
             /\ Len(queue) <= config.maxQueueEntries
             /\ \A f \in Handles :
                   Len(flushes[f].msgs) <= config.maxQueueEntries + 1)

C21_Witness ==
    /\ config.maxQueueEntries = 0
    /\ Len(flushes) = 2 /\ queue = <<>> /\ ~flushTimer
    /\ IdSeq(flushes[1].msgs) = <<1>> /\ IdSeq(flushes[2].msgs) = <<2>>
    /\ SumLen(flushes[1].msgs) + SumLen(flushes[2].msgs) <= config.maxQueueSize

\* C22: when the token of a flush is triggered while the flush is in a retry
\* sleep or in an HTTP request, the wait is interrupted: in the same turn
\* the flush's promise settles as aborted and its handle leaves the
\* active-flush set.
C22_CancelInterruptsWait ==
    [][\A f \in Handles :
          (/\ flushes[f].pc \in {"sleep", "fetch"}
           /\ ~flushes[f].aborted /\ flushes'[f].aborted) =>
              /\ flushes'[f].pc = "aborted"
              /\ f \notin activeFlushing']_vars

\* C23: the idle timer is armed exactly when the queue is non-empty, no batch
\* is dispatched empty, and, the armed timer firing in the end, every
\* accepted record leaves the queue and is dispatched in a batch.
C23_QueuedIsFlushed ==
    /\ [](flushTimer <=> queue # <<>>)
    /\ [](\A f \in Handles : flushes[f].msgs # <<>>)
    /\ \A id \in 1..MaxAccepted :
          (accepted >= id) ~> (Dispatched(id) /\ id \notin Ids(queue))

C23_Witness ==
    /\ config.maxQueueEntries = -1 /\ active
    /\ accepted = 2 /\ queue = <<>> /\ ~flushTimer
    /\ Len(flushes) = 1 /\ IdSeq(flushes[1].msgs) = <<1, 2>>
    /\ SumLen(flushes[1].msgs) <= config.maxQueueSize

\* every call of shutdown has returned
ShutdownReturned == ~active /\ racing = {}

\* C24: after shutdown has returned, with or without maxTime, no idle timer
\* remains armed, no new flush is dispatched, and a flush that has left the
\* active-flush set makes the set no larger again.
C24_NothingAfterShutdown ==
    /\ [](ShutdownReturned => ~flushTimer)
    /\ [][ShutdownReturned =>
             /\ Len(flushes') = Len(flushes)
             /\ activeFlushing' \subseteq activeFlushing]_vars

\* the counters agree with each other
Consistent(c) ==
    /\ c.sentMessages <= c.queuedMessages
    /\ c.sentBytes <= c.queuedBytes
    /\ c.retryCount <= c.errorCount

\* C25: in every reachable state, and in every snapshot that flushStats
\* returns, sentMessages <= queuedMessages, sentBytes <= queuedBytes and
\* retryCount <= errorCount.
C25_CountersConsistent ==
    /\ Consistent(counters)
    /\ lastStats # <<>> => Consistent(lastStats[1].counters)

\* C25 as amended: the same in every state before the first call of
\* flushStats and in the snapshot that the first call returns.
C25_ConsistentUntilFirstStats ==
    /\ [](~statsTaken => Consistent(counters))
    /\ [][(~statsTaken /\ lastStats' # <<>>) =>
             Consistent(lastStats'[1].counters)]_vars

C25_Witness ==
    /\ ~statsTaken /\ activeFlushing # {}
    /\ counters.sentMessages > 0 /\ counters.retryCount > 0
    /\ counters.queuedMessages = 2

====
